---- MODULE Spec2Model ----
(***************************************************************************)
(* Model of wooman_day.py: the loader/normaliser load_data, the two        *)
(* aggregations done inside plot_boxplot_top_areas and                     *)
(* plot_boxplot_by_quartile, and the script body main.                     *)
(*                                                                         *)
(* Text is a sequence of one-character strings, so that replacing,         *)
(* splitting, trimming and parsing are computed and not assumed.           *)
(* Female-share values are kept in tenths (15 is 1.5); a median is kept    *)
(* doubled (Median2) so that the mean of two middle values stays integral. *)
(***************************************************************************)
EXTENDS Integers, Sequences, FiniteSets, TLC

\* ------------------------------------------------------------------ bounds
\* Rows in all year files together.
MaxRows == 2
\* Largest explicit top_n tried besides the default.
MaxTopN == 2
\* Default of the top_n parameter of plot_boxplot_top_areas.
DefaultTopN == 10

\* ------------------------------------------------------------- text helpers
RECURSIVE SeqSum(_)
SeqSum(s) == IF s = <<>> THEN 0 ELSE Head(s) + SeqSum(Tail(s))

RECURSIVE Flatten(_)
Flatten(ss) == IF ss = <<>> THEN <<>> ELSE Head(ss) \o Flatten(Tail(ss))

Range(s) == {s[i] : i \in 1..Len(s)}

Digits == {"0", "1", "2", "3", "4", "5", "6", "7", "8", "9"}

DigitVal(c) ==
  CASE c = "0" -> 0 [] c = "1" -> 1 [] c = "2" -> 2 [] c = "3" -> 3
    [] c = "4" -> 4 [] c = "5" -> 5 [] c = "6" -> 6 [] c = "7" -> 7
    [] c = "8" -> 8 [] c = "9" -> 9

\* Code point order of the characters that occur in area and quartile names.
Ord(c) ==
  CASE c = " " -> 32 [] c = "1" -> 49 [] c = "2" -> 50
    [] c = "A" -> 65 [] c = "B" -> 66 [] c = "Q" -> 81
    [] OTHER -> 127

\* Python's string order: first differing character, a prefix sorts first.
RECURSIVE StrLess(_, _)
StrLess(a, b) ==
  IF b = <<>> THEN FALSE
  ELSE IF a = <<>> THEN TRUE
  ELSE IF Head(a) # Head(b) THEN Ord(Head(a)) < Ord(Head(b))
  ELSE StrLess(Tail(a), Tail(b))

\* str.replace(",", "."): every comma becomes a period.
StrReplaceComma(s) == [i \in 1..Len(s) |-> IF s[i] = "," THEN "." ELSE s[i]]

\* str.split(";"): the pieces between semicolons, empty pieces included.
RECURSIVE StrSplit(_)
StrSplit(s) ==
  IF \A i \in 1..Len(s) : s[i] # ";" THEN <<s>>
  ELSE LET p == CHOOSE i \in 1..Len(s) :
                  s[i] = ";" /\ \A j \in 1..(i - 1) : s[j] # ";"
       IN <<SubSeq(s, 1, p - 1)>> \o StrSplit(SubSeq(s, p + 1, Len(s)))

\* str.strip(): leading and trailing blanks removed.
RECURSIVE StrStrip(_)
StrStrip(s) ==
  IF s = <<>> THEN s
  ELSE IF Head(s) = " " THEN StrStrip(Tail(s))
  ELSE IF s[Len(s)] = " " THEN StrStrip(SubSeq(s, 1, Len(s) - 1))
  ELSE s

\* Value of a digit string, most significant digit first.
RECURSIVE IntVal(_)
IntVal(ds) ==
  IF ds = <<>> THEN 0 ELSE IntVal(SubSeq(ds, 1, Len(ds) - 1)) * 10 + DigitVal(ds[Len(ds)])

AllDigits(s) == \A i \in 1..Len(s) : s[i] \in Digits

\* float(text) on the texts of the model, which carry no sign, exponent or
\* blanks and at most one fractional digit: digits, optionally one period,
\* at least one digit overall; "nan" is the not-a-number value; anything else
\* raises ValueError.  The value is in tenths.
NaNText == <<"n", "a", "n">>
FloatOK(s) ==
  \/ s = NaNText
  \/ /\ s # <<>>
     /\ \E p \in 1..(Len(s) + 1) :
          /\ AllDigits(SubSeq(s, 1, p - 1))
          /\ AllDigits(SubSeq(s, p + 1, Len(s)))
          /\ p <= Len(s) => s[p] = "."
          /\ Len(s) - (IF p <= Len(s) THEN 1 ELSE 0) >= 1
FloatTenths(s) ==
  LET p == CHOOSE q \in 1..(Len(s) + 1) :
             /\ AllDigits(SubSeq(s, 1, q - 1))
             /\ q <= Len(s) => s[q] = "."
      frac == SubSeq(s, p + 1, Len(s))
  IN IntVal(SubSeq(s, 1, p - 1)) * 10 + (IF frac = <<>> THEN 0 ELSE DigitVal(frac[1]))

\* ------------------------------------------------------------- input files
\* files of load_data: year -> filename, in insertion (ascending) order.
Years == <<2022, 2023, 2024>>
YearSet == Range(Years)
FileName(y) ==
  CASE y = 2022 -> "scimagojr 2022.csv"
    [] y = 2023 -> "scimagojr 2023.csv"
    [] y = 2024 -> "scimagojr 2024.csv"

\* One CSV row: the texts of the cells %Female, Areas, SJR Best Quartile.
\* An empty cell is what pandas reads as a missing value.
Row(f, a, q) == [female |-> f, areas |-> a, quartile |-> q]
RowKinds ==
  { Row(<<"2">>,           <<"A", ";", "B">>,      <<"Q", "2">>),
    Row(<<"1", ",", "5">>, <<"B", ";", "A">>,      <<"Q", "1">>),
    Row(<<"3">>,           <<" ", "B">>,           <<>>),
    Row(<<"1">>,           <<"A", ";", " ">>,      <<"Q", "1">>),
    Row(<<"x">>,           <<"B">>,                <<"Q", "1">>),
    Row(<<>>,              <<"A">>,                <<"Q", "2">>),
    Row(<<"2">>,           <<>>,                   <<"Q", "1">>) }

\* The files a year can have with n rows drawn from kinds; a file without
\* rows is either absent or holds the header line only.
FilesWith(kinds, n) ==
  IF n = 0 THEN {[exists |-> FALSE, rows |-> <<>>], [exists |-> TRUE, rows |-> <<>>]}
  ELSE {[exists |-> TRUE, rows |-> r] : r \in [1..n -> kinds]}

\* The file systems with at most MaxRows rows in all.
FileSystemsOf(kinds) ==
  LET counts == {c \in (0..MaxRows) \X (0..MaxRows) \X (0..MaxRows) :
                   c[1] + c[2] + c[3] <= MaxRows}
  IN UNION { { [y \in YearSet |-> IF y = Years[1] THEN f1
                                   ELSE IF y = Years[2] THEN f2 ELSE f3] :
                 f1 \in FilesWith(kinds, c[1]), f2 \in FilesWith(kinds, c[2]),
                 f3 \in FilesWith(kinds, c[3]) } : c \in counts }
FileSystems == FileSystemsOf(RowKinds)

\* --------------------------------------------------------------- load_data
NaN == [na |-> TRUE, v |-> <<>>]
Val(x) == [na |-> FALSE, v |-> x]
\* pd.read_csv(path, sep=";") on one cell: an empty cell is a missing value.
ReadCell(t) == IF t = <<>> THEN NaN ELSE Val(t)

\* pd.read_csv and df["Year"] = year, for one file.
ReadCsv(fs, y) ==
  [i \in 1..Len(fs[y].rows) |->
     [Year |-> y,
      Female |-> ReadCell(fs[y].rows[i].female),
      Areas |-> ReadCell(fs[y].rows[i].areas),
      Quartile |-> ReadCell(fs[y].rows[i].quartile)]]

\* A loop that notes the missing file and goes on to the later files.
RECURSIVE ReadLoopGoesOn(_, _, _)
ReadLoopGoesOn(fs, k, dfs) ==
  IF k > Len(Years) THEN [dfs |-> dfs, missing |-> 0]
  ELSE IF ~fs[Years[k]].exists
    THEN [dfs |-> ReadLoopGoesOn(fs, k + 1, dfs).dfs, missing |-> Years[k]]
  ELSE ReadLoopGoesOn(fs, k + 1, Append(dfs, ReadCsv(fs, Years[k])))
\* The loop over files.items(): the frames read before the first missing
\* file, and that file's year (0 when every file exists).
RECURSIVE ReadLoop(_, _, _)
ReadLoop(fs, k, dfs) ==
  IF k > Len(Years) THEN [dfs |-> dfs, missing |-> 0]
  ELSE IF ~fs[Years[k]].exists THEN [dfs |-> dfs, missing |-> Years[k]]
  ELSE ReadLoop(fs, k + 1, Append(dfs, ReadCsv(fs, Years[k])))

\* st.error / st.write / st.write of the branch taken for a missing file.
Listing(fs) == {FileName(y) : y \in {z \in YearSet : fs[z].exists}}
MissingReport(fs, y) ==
  << [kind |-> "error", file |-> FileName(y), listing |-> {}],
     [kind |-> "write", file |-> "", listing |-> {}],
     [kind |-> "write", file |-> "", listing |-> Listing(fs)] >>

\* pd.concat(dfs, ignore_index=True): rows in order, index 1, 2, ...
Concat(dfs) ==
  LET all == Flatten(dfs)
  IN [i \in 1..Len(all) |->
        [idx |-> i, Year |-> all[i].Year, Female |-> all[i].Female,
         Areas |-> all[i].Areas, Quartile |-> all[i].Quartile]]

\* .astype(str).str.replace(",", "."): a missing value becomes "nan".
FemaleText(c) == StrReplaceComma(IF c.na THEN NaNText ELSE c.v)
\* .astype(float) raises ValueError as soon as one text is no number.
CoerceFails(df) == \E i \in 1..Len(df) : ~FloatOK(FemaleText(df[i].Female))
CoerceCell(c) ==
  LET t == FemaleText(c)
  IN IF t = NaNText THEN [na |-> TRUE, v |-> 0] ELSE [na |-> FALSE, v |-> FloatTenths(t)]
Coerce(df) == [i \in 1..Len(df) |-> [df[i] EXCEPT !.Female = CoerceCell(@)]]

\* The .str accessor is refused on a column that holds rows but no text
\* (pandas reads an all-empty column as float64).
StrAccessorFails(df) == df # <<>> /\ \A i \in 1..Len(df) : df[i].Areas.na

\* .str.split(";") followed by explode("Areas") and .str.strip(): one row
\* per piece, a missing value stays one missing row.
ExplodeRow(r) ==
  IF r.Areas.na THEN <<r>>
  ELSE LET parts == StrSplit(r.Areas.v)
       IN [j \in 1..Len(parts) |-> [r EXCEPT !.Areas = Val(StrStrip(parts[j]))]]
Explode(df) == Flatten([i \in 1..Len(df) |-> ExplodeRow(df[i])])

\* dropna(subset=["%Female", "Areas", "Year"]); Year is never missing.
DropNa(df) ==
  LET keep(r) == ~r.Female.na /\ ~r.Areas.na
  IN SelectSeq(df, keep)

\* load_data(base_dir) as a whole: what it reads, reports and returns.
LoadData(fs) ==
  LET loop == ReadLoop(fs, 1, <<>>)
      read == [i \in 1..Len(loop.dfs) |-> Years[i]]
      cat == Concat(loop.dfs)
  IN IF loop.missing # 0
       THEN [status |-> "stopped", read |-> read,
             out |-> MissingReport(fs, loop.missing), df |-> <<>>]
     ELSE IF CoerceFails(cat)
       THEN [status |-> "ValueError", read |-> read, out |-> <<>>, df |-> <<>>]
     ELSE IF StrAccessorFails(cat)
       THEN [status |-> "AttributeError", read |-> read, out |-> <<>>, df |-> <<>>]
     ELSE [status |-> "returned", read |-> read, out |-> <<>>,
           df |-> DropNa(Explode(Coerce(cat)))]

\* -------------------------------------------------------------- aggregation
\* Every area name a row of the model can produce, and the quartile labels.
AreaNames ==
  UNION { {StrStrip(t) : t \in Range(StrSplit(r.areas))} : r \in {k \in RowKinds : k.areas # <<>>} }
QuartileNames == {r.quartile : r \in {k \in RowKinds : k.quartile # <<>>}}

\* Sort slots: a sort never ranks more groups than there are names.
Slots == 1..Cardinality(AreaNames)
\* What the build's default (quicksort) sort does with equal keys is left
\* open by numpy: a build is modelled by the priority it gives the slots of
\* the array it sorts.  The identity is the stable outcome.
TieOrders == {t \in [Slots -> Slots] : \A i, j \in Slots : i # j => t[i] # t[j]}
StableTie == [i \in Slots |-> i]

\* The distinct values of S in ascending order, as groupby sorts its keys.
SortedKeys(S) ==
  [r \in 1..Cardinality(S) |->
     CHOOSE k \in S : Cardinality({j \in S : StrLess(j, k)}) = r - 1]

\* The column of a frame as a sequence.
FemaleOf(rows) == [i \in 1..Len(rows) |-> rows[i].Female.v]

\* Series.median(): middle value of the sorted values, the mean of the two
\* middle values for an even count; doubled here.
SortAsc(vals) ==
  LET before(i, j) == vals[i] < vals[j] \/ (vals[i] = vals[j] /\ i < j)
      n == Len(vals)
  IN [r \in 1..n |->
        vals[CHOOSE i \in 1..n : Cardinality({j \in 1..n : before(j, i)}) = r - 1]]
Median2(vals) ==
  LET s == SortAsc(vals)
      n == Len(vals)
  IN IF n % 2 = 1 THEN 2 * s[(n + 1) \div 2] ELSE s[n \div 2] + s[n \div 2 + 1]

\* The sort with ascending=False forgotten.
SortValuesAsc(keys, meds, t) ==
  LET n == Len(keys)
      before(i, j) == meds[i] < meds[j] \/ (meds[i] = meds[j] /\ t[i] < t[j])
  IN [r \in 1..n |->
        keys[CHOOSE i \in 1..n : Cardinality({j \in 1..n : before(j, i)}) = r - 1]]
\* .sort_values(ascending=False) on a series given as keys and values:
\* descending by value, equal values in the build's tie order.
SortValuesDesc(keys, meds, t) ==
  LET n == Len(keys)
      before(i, j) == meds[i] > meds[j] \/ (meds[i] = meds[j] /\ t[i] < t[j])
  IN [r \in 1..n |->
        keys[CHOOSE i \in 1..n : Cardinality({j \in 1..n : before(j, i)}) = r - 1]]

\* A cut that keeps one entry too many.
HeadNOffByOne(s, n) == SubSeq(s, 1, IF n + 1 < Len(s) THEN n + 1 ELSE Len(s))
\* .head(n)
HeadN(s, n) == SubSeq(s, 1, IF n < Len(s) THEN n ELSE Len(s))

\* df[df["Year"] == year]; a year of None matches no row.
FilterYear(d, year) ==
  LET keep(r) == ~year.na /\ r.Year = year.v
  IN SelectSeq(d, keep)
RowsOfArea(rows, a) ==
  LET keep(r) == r.Areas.v = a
  IN SelectSeq(rows, keep)
RowsOfQuartile(rows, q) ==
  LET keep(r) == ~r.Quartile.na /\ r.Quartile.v = q
  IN SelectSeq(rows, keep)

\* groupby("Areas", sort=False): the areas in first-seen order.
AreaKeysFirstSeen(rows) ==
  LET S == {rows[i].Areas.v : i \in 1..Len(rows)}
      seen(a) == CHOOSE i \in 1..Len(rows) :
                   rows[i].Areas.v = a /\ \A j \in 1..(i - 1) : rows[j].Areas.v # a
      earlier(a, b) == seen(a) < seen(b)
  IN [r \in 1..Cardinality(S) |->
        CHOOSE k \in S : Cardinality({j \in S : earlier(j, k)}) = r - 1]
\* rows.groupby("Areas")["%Female"].median(): one entry per area of the
\* rows, in ascending order of the area name.
AreaKeys(rows) == SortedKeys({rows[i].Areas.v : i \in 1..Len(rows)})
AreaMedians(rows) ==
  LET keys == AreaKeys(rows)
  IN [i \in 1..Len(keys) |-> Median2(FemaleOf(RowsOfArea(rows, keys[i])))]

\* top_areas of plot_boxplot_top_areas: the index of the sorted, cut series.
TopAreas(d, year, top_n, t) ==
  LET df_year == FilterYear(d, year)
  IN HeadN(SortValuesDesc(AreaKeys(df_year), AreaMedians(df_year), t), top_n)

\* grouped of plot_boxplot_top_areas: df_top grouped by the categorical
\* column, one array per category in category order, values in row order.
TopGrouped(d, year, top) ==
  LET df_year == FilterYear(d, year)
  IN [i \in 1..Len(top) |-> FemaleOf(RowsOfArea(df_year, top[i]))]

\* The year filter applied to the caller's frame itself.
FrameNarrowedToYear(d, year, top) ==
  LET keep(r) == ~year.na /\ r.Year = year.v
  IN SelectSeq(d, keep)
\* The frame the caller holds after plot_boxplot_top_areas: the filters
\* make copies, so assigning the categorical column leaves df as it was.
FrameAfterTop(d, year, top) == d

\* df_area of plot_boxplot_by_quartile; an area of None matches no row.
FilterArea(d, year, area) ==
  LET keep(r) == ~area.na /\ r.Areas.v = area.v
  IN SelectSeq(FilterYear(d, year), keep)

\* rows.groupby("SJR Best Quartile")["%Female"].median(): rows without a
\* quartile belong to no group.
QuartileKeys(rows) ==
  SortedKeys({rows[i].Quartile.v : i \in {j \in 1..Len(rows) : ~rows[j].Quartile.na}})
QuartileMedians(rows) ==
  LET keys == QuartileKeys(rows)
  IN [i \in 1..Len(keys) |-> Median2(FemaleOf(RowsOfQuartile(rows, keys[i])))]

\* quartile_medians.index of plot_boxplot_by_quartile.
QuartileOrder(d, year, area, t) ==
  LET df_area == FilterArea(d, year, area)
  IN SortValuesDesc(QuartileKeys(df_area), QuartileMedians(df_area), t)

\* The groups taken in label order instead of category order.
QuartileGroupedByLabel(d, year, area, order) ==
  LET keep(r) == ~year.na /\ r.Year = year.v /\ ~area.na /\ r.Areas.v = area.v
      df_area == SelectSeq(d, keep)
      S == {df_area[i].Quartile.v : i \in {j \in 1..Len(df_area) : ~df_area[j].Quartile.na}}
      keys == SortedKeys(S)
      of(q) == SelectSeq(df_area, LAMBDA r : ~r.Quartile.na /\ r.Quartile.v = q)
  IN [i \in 1..Len(keys) |-> [k \in 1..Len(of(keys[i])) |-> of(keys[i])[k].Female.v]]
\* grouped of plot_boxplot_by_quartile.
QuartileGrouped(d, year, area, order) ==
  LET df_area == FilterArea(d, year, area)
  IN [i \in 1..Len(order) |-> FemaleOf(RowsOfQuartile(df_area, order[i]))]

\* The empty-grouping test left out.
QuartileAlwaysPlots(grouped) == "plot"
\* if not grouped: st.info(...); return -- otherwise the plot is drawn.
QuartileOutcome(grouped) == IF grouped = <<>> THEN "info" ELSE "plot"

\* The frame the caller holds after plot_boxplot_by_quartile.
FrameAfterQuartile(d, year, area) == d

\* ------------------------------------------------------------------- state
VARIABLES
  files,     \* the year files under base_dir
  tie,       \* the build's tie order of the default sort
  pc,        \* "start", or how the last load_data call ended
  cache,     \* st.cache_data's entry for load_data
  df,        \* the frame held by the caller of load_data
  out,       \* what load_data reported to the page
  read,      \* the years whose files load_data read
  ranking,   \* labels and grouped of the last plot_boxplot_top_areas
  grouping   \* labels, grouped and outcome of the last plot_boxplot_by_quartile

vars == <<files, tie, pc, cache, df, out, read, ranking, grouping>>

YearArg(y) == [na |-> FALSE, v |-> y]
None == [na |-> TRUE, v |-> 0]
NoArea == NaN

NoRanking ==
  [called |-> FALSE, year |-> None, top_n |-> 0, labels |-> <<>>, grouped |-> <<>>]
NoGrouping ==
  [called |-> FALSE, year |-> None, area |-> NoArea, labels |-> <<>>,
   grouped |-> <<>>, outcome |-> "none"]

Init ==
  /\ files \in FileSystems
  /\ tie \in TieOrders
  /\ pc = "start"
  /\ cache = [hit |-> FALSE, df |-> <<>>]
  /\ df = <<>>
  /\ out = <<>>
  /\ read = <<>>
  /\ ranking = NoRanking
  /\ grouping = NoGrouping

\* load_data behind @st.cache_data: a stored result is handed out again
\* (as a copy) without running the body; a run that does not return stores
\* nothing.
CachedLoad(c, fs) ==
  IF c.hit THEN [status |-> "returned", read |-> <<>>, out |-> <<>>, df |-> c.df]
  ELSE LoadData(fs)
CacheAfter(c, r) == IF r.status = "returned" THEN [hit |-> TRUE, df |-> r.df] ELSE c

\* plot_boxplot_top_areas(df, year, top_n): its ranking and the frame left
\* to the caller.
PlotTop(d, year, top_n, t) ==
  LET top == TopAreas(d, year, top_n, t)
  IN [view |-> [called |-> TRUE, year |-> year, top_n |-> top_n,
                labels |-> top, grouped |-> TopGrouped(d, year, top)],
      df |-> FrameAfterTop(d, year, top)]

\* plot_boxplot_by_quartile(df, year, area).
PlotQuartile(d, year, area, t) ==
  LET order == QuartileOrder(d, year, area, t)
      grouped == QuartileGrouped(d, year, area, order)
  IN [view |-> [called |-> TRUE, year |-> year, area |-> area, labels |-> order,
                grouped |-> grouped, outcome |-> QuartileOutcome(grouped)],
      df |-> FrameAfterQuartile(d, year, area)]

\* The options of the two select boxes of main; an empty box yields None.
YearOptions(d) ==
  IF d = <<>> THEN {None} ELSE {YearArg(d[i].Year) : i \in 1..Len(d)}
AreaOptions(d, year) ==
  LET rows == FilterYear(d, year)
  IN IF rows = <<>> THEN {NoArea} ELSE {Val(rows[i].Areas.v) : i \in 1..Len(rows)}

\* ------------------------------------------------- the script: runs of main
\* A run of main in which load_data does not return: st.stop() or an
\* exception ends the run before any select box or plot.
MainHalts ==
  \E r \in {CachedLoad(cache, files)} :
     /\ r.status # "returned"
     /\ pc' = r.status
     /\ out' = r.out
     /\ read' = r.read
     /\ cache' = CacheAfter(cache, r)
     /\ UNCHANGED <<files, tie, df, ranking, grouping>>

\* A run of main with the year and the area the user has selected.
MainRenders ==
  \E r \in {CachedLoad(cache, files)} :
     /\ r.status = "returned"
     /\ \E year \in YearOptions(r.df) :
        \E top \in {PlotTop(r.df, year, DefaultTopN, tie)} :
        \E area \in AreaOptions(top.df, year) :
        \E qua \in {PlotQuartile(top.df, year, area, tie)} :
           /\ pc' = r.status
           /\ out' = (IF cache.hit THEN out ELSE r.out)
           /\ read' = (IF cache.hit THEN read ELSE r.read)
           /\ cache' = CacheAfter(cache, r)
           /\ ranking' = top.view
           /\ grouping' = qua.view
           /\ df' = qua.df
           /\ UNCHANGED <<files, tie>>


Next ==
  \/ MainHalts
  \/ MainRenders

Spec == Init /\ [][Next]_vars

\* --------------------------------------- the functions called on their own
\* The arguments tried: every configured year, every area name, and the
\* top_n values up to MaxTopN besides the default.
YearArgs == {YearArg(y) : y \in YearSet}
AreaArgs == {Val(a) : a \in AreaNames}
TopNs == 0..MaxTopN \cup {DefaultTopN}
Idle == ~ranking.called /\ ~grouping.called

\* load_data(base_dir) called by itself.
CallLoadData ==
  /\ Idle
  /\ \E r \in {CachedLoad(cache, files)} :
        /\ pc' = r.status
        /\ out' = (IF cache.hit THEN out ELSE r.out)
        /\ read' = (IF cache.hit THEN read ELSE r.read)
        /\ cache' = CacheAfter(cache, r)
        /\ df' = r.df
  /\ UNCHANGED <<files, tie, ranking, grouping>>

\* plot_boxplot_top_areas(df, year, top_n) on the loaded frame, up to the
\* point where labels and grouped are handed to the plot.
CallPlotTop(year, top_n) ==
  /\ pc = "returned"
  /\ Idle
  /\ \E top \in {PlotTop(df, year, top_n, tie)} :
        /\ ranking' = top.view
        /\ df' = top.df
  /\ UNCHANGED <<files, tie, pc, cache, out, read, grouping>>

\* plot_boxplot_by_quartile(df, year, area) on the loaded frame.
CallPlotQuartile(year, area) ==
  /\ pc = "returned"
  /\ Idle
  /\ \E qua \in {PlotQuartile(df, year, area, tie)} :
        /\ grouping' = qua.view
        /\ df' = qua.df
  /\ UNCHANGED <<files, tie, pc, cache, out, read, ranking>>

\* The plot function returns: its locals are gone.
CallReturns ==
  /\ ~Idle
  /\ ranking' = NoRanking
  /\ grouping' = NoGrouping
  /\ UNCHANGED <<files, tie, pc, cache, df, out, read>>

CallNext ==
  \/ CallLoadData
  \/ \E year \in YearArgs, top_n \in TopNs : CallPlotTop(year, top_n)
  \/ \E year \in YearArgs, area \in AreaArgs : CallPlotQuartile(year, area)
  \/ CallReturns

CallSpec == Init /\ [][CallNext]_vars

\* ================================================================== claims
\* The rows of the existing files in reading order, as texts, each with its
\* year and its index after concatenation.
RawRows(fs) ==
  LET ys == SelectSeq(Years, LAMBDA y : fs[y].exists)
      per == [k \in 1..Len(ys) |->
                [i \in 1..Len(fs[ys[k]].rows) |->
                   [Year |-> ys[k], row |-> fs[ys[k]].rows[i]]]]
      all == Flatten(per)
  IN [i \in 1..Len(all) |-> [idx |-> i, Year |-> all[i].Year, row |-> all[i].row]]
AllExist(fs) == \A y \in YearSet : fs[y].exists
Parses(text) == text # <<>> /\ FloatOK(StrReplaceComma(text))
Unparsable(text) == text # <<>> /\ ~FloatOK(StrReplaceComma(text))
NonEmptyTokens(text) ==
  LET parts == StrSplit(text)
      trimmed == [j \in 1..Len(parts) |-> StrStrip(parts[j])]
  IN SelectSeq(trimmed, LAMBDA t : t # <<>>)
\* The records the normaliser is specified to emit for one raw row.
ExpectedOfRow(r) ==
  IF ~Parses(r.row.female) \/ r.row.areas = <<>> THEN <<>>
  ELSE LET toks == NonEmptyTokens(r.row.areas)
       IN [j \in 1..Len(toks) |->
             [idx |-> r.idx, Year |-> r.Year,
              Female |-> [na |-> FALSE, v |-> FloatTenths(StrReplaceComma(r.row.female))],
              Areas |-> Val(toks[j]),
              Quartile |-> ReadCell(r.row.quartile)]]
RecordsOfRow(d, i) == SelectSeq(d, LAMBDA r : r.idx = i)

\* C1: after load_data returns, no record of the dataset has an empty-string
\* area (an area token that is empty after trimming is dropped).
C1_NoEmptyArea ==
  pc = "returned" => \A i \in 1..Len(df) : df[i].Areas.v # <<>>

\* C2: a female-share text that does not parse once commas are periods costs
\* only its own row: with every file present, load_data still returns, and
\* every other row with a female-share and an area tag is in the dataset.
C2_CoercionNotFatal ==
  LET raw == RawRows(files)
  IN (/\ pc # "start"
      /\ AllExist(files)
      /\ \E i \in 1..Len(raw) : Unparsable(raw[i].row.female))
     => /\ pc = "returned"
        /\ \A i \in 1..Len(raw) :
             IF Parses(raw[i].row.female) /\ raw[i].row.areas # <<>>
               THEN RecordsOfRow(df, i) # <<>>
               ELSE RecordsOfRow(df, i) = <<>>

\* C3: in the dataset load_data returns, every row with a valid female-share
\* and an area tag of k non-empty tokens is one record per such token, in
\* token order, each with the trimmed token as area and the row's other
\* fields; the rows come in input order and no other record is present.
C3_OneRecordPerToken ==
  LET raw == RawRows(files)
  IN pc = "returned" =>
       df = Flatten([i \in 1..Len(raw) |-> ExpectedOfRow(raw[i])])

\* What the claims about the two aggregations speak of, read off the frame.
YearRows(d, year) == SelectSeq(d, LAMBDA r : ~year.na /\ r.Year = year.v)
AreasOfYear(d, year) == {r.Areas.v : r \in Range(YearRows(d, year))}
ValuesOfArea(d, year, a) ==
  FemaleOf(SelectSeq(YearRows(d, year), LAMBDA r : r.Areas.v = a))
MedianOfArea(d, year, a) == Median2(ValuesOfArea(d, year, a))
FirstSeen(d, year, a) ==
  LET rows == YearRows(d, year)
  IN CHOOSE i \in 1..Len(rows) :
       rows[i].Areas.v = a /\ \A j \in 1..(i - 1) : rows[j].Areas.v # a
\* The place of an area in the name-ordered array that is sorted.
SlotOfArea(d, year, a) == 1 + Cardinality({b \in AreasOfYear(d, year) : StrLess(b, a)})
MatchingRows(d, year, area) ==
  SelectSeq(YearRows(d, year), LAMBDA r : ~area.na /\ r.Areas.v = area.v)
ValuesOfQuartile(d, year, area, q) ==
  FemaleOf(SelectSeq(MatchingRows(d, year, area),
                     LAMBDA r : ~r.Quartile.na /\ r.Quartile.v = q))
Min(a, b) == IF a < b THEN a ELSE b

\* C4: areas of the selected year with equal medians are ranked in their
\* first-seen order in the year's rows, both among the ranked areas and
\* between a ranked area and a tied area that was cut off.
C4_TiesFirstSeen ==
  ranking.called =>
    LET L == ranking.labels
        y == ranking.year
        med(a) == MedianOfArea(df, y, a)
        seen(a) == FirstSeen(df, y, a)
    IN /\ \A i, j \in 1..Len(L) :
            i < j /\ med(L[i]) = med(L[j]) => seen(L[i]) < seen(L[j])
       /\ \A a \in Range(L), b \in AreasOfYear(df, y) \ Range(L) :
            med(a) = med(b) => seen(a) < seen(b)

\* C4, amended: with a sort that leaves equal keys in place, areas with equal
\* medians are ranked in ascending order of their names, the order in which
\* groupby hands them to the sort, among the ranked areas and between a
\* ranked area and a tied area that was cut off.
C4_TiesNameOrder ==
  (ranking.called /\ tie = StableTie) =>
    LET L == ranking.labels
        y == ranking.year
        med(a) == MedianOfArea(df, y, a)
    IN /\ \A i, j \in 1..Len(L) :
            i < j /\ med(L[i]) = med(L[j]) => StrLess(L[i], L[j])
       /\ \A a \in Range(L), b \in AreasOfYear(df, y) \ Range(L) :
            med(a) = med(b) => StrLess(a, b)
\* Two tied areas ranked against their first-seen order by a stable sort.
C4_Witness ==
  /\ ranking.called
  /\ tie = StableTie
  /\ Len(ranking.labels) >= 2
  /\ MedianOfArea(df, ranking.year, ranking.labels[1])
       = MedianOfArea(df, ranking.year, ranking.labels[2])
  /\ FirstSeen(df, ranking.year, ranking.labels[1])
       > FirstSeen(df, ranking.year, ranking.labels[2])

\* C5: the label list and the list of value collections of the ranking both
\* have min(top_n, number of distinct areas of the year) entries.
C5_RankingLength ==
  ranking.called =>
    LET n == Min(ranking.top_n, Cardinality(AreasOfYear(df, ranking.year)))
    IN Len(ranking.labels) = n /\ Len(ranking.grouped) = n
\* A ranking that was cut: fewer labels than areas, and at least one.
C5_Witness ==
  /\ ranking.called
  /\ ranking.top_n > 0
  /\ ranking.top_n < Cardinality(AreasOfYear(df, ranking.year))
  /\ Len(ranking.labels) = ranking.top_n

\* C6: the ranking is non-increasing in the areas' medians, no area left out
\* has a larger median than an area in it, and the ranking is determined by
\* the frame, the year, top_n and the build: it lists distinct areas of the
\* year, each with its values in row order, equal medians in the build's tie
\* order, so that computing it again gives the same sequences.
C6_RankingSortedDetermined ==
  ranking.called =>
    LET L == ranking.labels
        y == ranking.year
        all == AreasOfYear(df, y)
        med(a) == MedianOfArea(df, y, a)
        prio(a) == tie[SlotOfArea(df, y, a)]
    IN /\ \A i, j \in 1..Len(L) : i < j => med(L[i]) >= med(L[j])
       /\ \A a \in Range(L), b \in all \ Range(L) : med(a) >= med(b)
       /\ Range(L) \subseteq all
       /\ \A i, j \in 1..Len(L) : i # j => L[i] # L[j]
       /\ Len(ranking.grouped) = Len(L)
       /\ \A i \in 1..Len(L) : ranking.grouped[i] = ValuesOfArea(df, y, L[i])
       /\ \A i, j \in 1..Len(L) :
            i < j /\ med(L[i]) = med(L[j]) => prio(L[i]) < prio(L[j])
       /\ \A a \in Range(L), b \in all \ Range(L) :
            med(a) = med(b) => prio(a) < prio(b)
\* A ranking the sort had to reorder and the cut had to shorten.
C6_Witness ==
  /\ ranking.called
  /\ Len(ranking.labels) >= 2
  /\ MedianOfArea(df, ranking.year, ranking.labels[1])
       > MedianOfArea(df, ranking.year, ranking.labels[2])
  /\ StrLess(ranking.labels[2], ranking.labels[1])
  /\ AreasOfYear(df, ranking.year) \ Range(ranking.labels) # {}

\* C7: the grouping has one group per quartile label occurring among the
\* rows of the selected year and area, label list and groups index by index,
\* each group the non-empty collection of that label's values, the groups
\* non-increasing in their medians.
C7_QuartileGroups ==
  grouping.called =>
    LET L == grouping.labels
        G == grouping.grouped
        rows == MatchingRows(df, grouping.year, grouping.area)
        labs == {r.Quartile.v : r \in {x \in Range(rows) : ~x.Quartile.na}}
    IN /\ Len(L) = Cardinality(labs)
       /\ Len(G) = Len(L)
       /\ Range(L) = labs
       /\ \A i \in 1..Len(L) :
            /\ G[i] = ValuesOfQuartile(df, grouping.year, grouping.area, L[i])
            /\ G[i] # <<>>
       /\ \A i, j \in 1..Len(L) : i < j => Median2(G[i]) >= Median2(G[j])
\* Two groups whose order by median is not the order of their labels.
C7_Witness ==
  /\ grouping.called
  /\ Len(grouping.labels) = 2
  /\ Median2(grouping.grouped[1]) > Median2(grouping.grouped[2])
  /\ StrLess(grouping.labels[2], grouping.labels[1])

\* C8: when no row has the selected year and area (an empty frame included),
\* plot_boxplot_by_quartile has an empty grouping and ends with the notice
\* that there is no data: no plot, no error.
C8_NoMatchNoData ==
  (grouping.called /\ MatchingRows(df, grouping.year, grouping.area) = <<>>)
    => /\ grouping.labels = <<>>
       /\ grouping.grouped = <<>>
       /\ grouping.outcome = "info"
\* The call on a frame that has rows, none of the selected year and area.
C8_Witness ==
  /\ grouping.called
  /\ df # <<>>
  /\ MatchingRows(df, grouping.year, grouping.area) = <<>>
  /\ grouping.outcome = "info"

\* C9: load_data goes through the year files in ascending order; at the first
\* file that does not exist it reports an error naming that file and lists
\* the directory, once, and the run ends there: that file and the later ones
\* are not read, nothing is returned or cached, and no ranking or grouping is
\* computed.  With every file present all three are read, in order.
C9_MissingFileHalts ==
  LET missing == {y \in YearSet : ~files[y].exists}
      first == CHOOSE m \in missing : \A y \in missing : m <= y
  IN pc # "start" =>
       IF missing = {}
         THEN read = Years /\ out = <<>>
         ELSE /\ pc = "stopped"
              /\ read = SelectSeq(Years, LAMBDA y : y < first)
              /\ Len(out) = Len(MissingReport(files, first))
              /\ out[1].kind = "error" /\ out[1].file = FileName(first)
              /\ out[Len(out)].listing = {FileName(y) : y \in YearSet \ missing}
              /\ df = <<>>
              /\ ~cache.hit
              /\ ~ranking.called /\ ~grouping.called
\* A run stopped at a missing middle file, with rows read before it and an
\* existing later file left unread.
C9_Witness ==
  /\ pc = "stopped"
  /\ read = <<Years[1]>>
  /\ files[Years[1]].rows # <<>>
  /\ files[Years[3]].exists /\ files[Years[3]].rows # <<>>

\* C10: whatever years and areas have been selected so far, the frame main
\* holds and the cached frame are the one load_data returned, and the ranking
\* and the grouping on the page are those of that frame for the current
\* year and area alone.
C10_DatasetUntouched ==
  pc = "returned" =>
    LET loaded == LoadData(files).df
    IN /\ df = loaded
       /\ cache = [hit |-> TRUE, df |-> loaded]
       /\ ranking = PlotTop(loaded, ranking.year, DefaultTopN, tie).view
       /\ grouping = PlotQuartile(loaded, grouping.year, grouping.area, tie).view
\* A page drawn for one year of a frame that also has rows of another year.
C10_Witness ==
  /\ pc = "returned"
  /\ ranking.called /\ ranking.labels # <<>>
  /\ grouping.called /\ grouping.outcome = "plot"
  /\ \E i \in 1..Len(df) : df[i].Year # ranking.year.v

====
